---- MODULE Spec2Model ----
(***************************************************************************)
(* A model of src/src/blocksplitting.py: the thread distributor            *)
(* (distribute_keep_together, balance_threads), the two block splitters    *)
(* (split_AB, split_AB_blocks) and the range splitter (split_list).        *)
(*                                                                         *)
(* Conventions.  Thread indices are 0-based as in the source, so arrays    *)
(* indexed by thread are functions over 0..n_threads-1.  A block of the    *)
(* input list is named by its 1-based position in list_of_blocks; its cost *)
(* block.data.nnz is block_nnz[b].  Python lists are heap objects: the     *)
(* inner lists of thread_bins live in `lists` and thread_bins itself holds *)
(* references to them, so that list.copy() copies references only.         *)
(*                                                                         *)
(* Arithmetic.  The source compares floats that are quotients by n_threads *)
(* or halves of integers.  The model compares the same quantities exactly, *)
(* multiplied by the positive factors 2, n_threads or n_threads^2.         *)
(***************************************************************************)
EXTENDS Integers, Sequences, FiniteSets, TLC

\* ------------------------------------------------------------------ bounds
MaxBlocks == 4
MaxNnz == 3
MaxThreads == 3
MaxLen == 10
MaxChunks == 4
MaxDim == 4
MaxEntries == 2
MaxInfoLen == 3
MaxDiagLen == 3
MaxDiagVal == 2
MaxPulseLen == 3
MaxAmpl == 2
MaxFactor == 2

\* --------------------------------------------------------------- variables
VARIABLES
    pc,                 \* position in the function being run
    block_nnz,          \* input: block_nnz[b] is list_of_blocks[b].data.nnz
    n_threads,          \* input
    total_nnz,          \* line 171
    lists,              \* heap: the inner list objects created at line 173
    thread_bins,        \* outer list: references into `lists`
    thread_filled,      \* numpy array of per-thread loads
    thread_bins_prev,   \* line 185 (references)
    thread_filled_prev, \* line 186 (values)
    i_thread,           \* loop variable, lines 175-193
    k_block,            \* position of the for loop of line 176
    range_next,         \* next value of the range iterator of line 187 / 192
    sigma0, sigma,      \* imbalances, multiplied by n_threads^2
    frame,              \* the active balance_threads call: i, j, 2*avg, caller
    greedy_bins,        \* history: content of the bins at line 181
    pass_bins,          \* history: content of the bins at line 185
    result,             \* the returned value
    \* split_AB and split_AB_blocks
    m_coo,              \* input: the entries of m.tocoo(), in storage order
    block_info,         \* input
    n,                  \* input: the dimension of m
    res_AB,             \* what split_AB returned or raised
    res_AB_blocks,      \* what split_AB_blocks returned or raised
    \* split_list
    seq_in,             \* input: the list passed as lst
    n_chunks,           \* input: the parameter n of split_list
    lst,                \* line 134: the rest of the list
    i_chunk,            \* line 131: next value of reversed(range(1, n + 1))
    splitted,           \* line 130
    \* split_diagonal_hamiltonian
    h0_diag,            \* input: the diagonal of H0, h0_diag[x] at index x
    h0_offdiag,         \* input: number of non-zeros of H0 off the diagonal
    n_blocks,           \* input
    res_diag,           \* line 142: res
    i_block,            \* line 143: loop variable i
    j_block,            \* line 145: loop variable j
    \* Pulse.resample (qdyn/pulse.py)
    tgrid,              \* self.tgrid, times in half units
    amplitude,          \* self.amplitude (real), values in half units
    upsample,           \* argument: <<>> for None, <<v>> for the integer v
    downsample,         \* argument, likewise
    num,                \* argument, likewise
    nt,                 \* line 1020
    num_samples,        \* lines 1026-1038: the local num, <<p, q>> for p / q
    tgrid_at_call,      \* history: self.tgrid when resample was called
    amplitude_at_call,  \* history: self.amplitude when resample was called
    \* _PulseConfigAttribs (qdyn/pulse.py)
    attr_keys,          \* self._keys
    attr_data,          \* self._data
    parent_units,       \* self._parent.time_unit and self._parent.ampl_unit
    parent_is_complex,  \* self._parent.is_complex
    attr_raised         \* what the last call raised, "none" if it returned

distData == <<block_nnz, n_threads, total_nnz, lists, thread_bins,
              thread_filled, thread_bins_prev, thread_filled_prev, i_thread,
              k_block, range_next, sigma0, sigma, frame, greedy_bins,
              pass_bins, result>>

distVars == <<pc, distData>>

splitVars == <<m_coo, block_info, n, res_AB, res_AB_blocks>>

listVars == <<seq_in, n_chunks, lst, i_chunk, splitted>>

diagVars == <<h0_diag, h0_offdiag, n_blocks, res_diag, i_block, j_block>>

pulseVars == <<tgrid, amplitude, upsample, downsample, num, nt, num_samples,
               tgrid_at_call, amplitude_at_call>>

attrVars == <<attr_keys, attr_data, parent_units, parent_is_complex,
              attr_raised>>

vars == <<distVars, splitVars, listVars, diagVars, pulseVars, attrVars>>

\* ----------------------------------------------------------------- helpers
Abs(x) == IF x < 0 THEN -x ELSE x

Min(a, b) == IF a < b THEN a ELSE b

RECURSIVE SumSeq(_)
SumSeq(s) == IF s = <<>> THEN 0 ELSE Head(s) + SumSeq(Tail(s))

RECURSIVE SumOver(_, _)
\* sum of f[t] over t in the finite set S
SumOver(f, S) ==
    IF S = {} THEN 0
    ELSE LET t == CHOOSE x \in S : TRUE IN f[t] + SumOver(f, S \ {t})

Threads == 0..(n_threads - 1)

\* the lists that a list of references points to
Deref(refs) == [t \in DOMAIN refs |-> lists[refs[t]]]

\* np.sum(np.abs(filled - nnz_per_thread)) / n_threads, times n_threads^2
Imbalance(filled) ==
    SumOver([t \in DOMAIN filled |-> Abs(n_threads * filled[t] - total_nnz)],
            DOMAIN filled)

\* list.pop(), list.pop(0), list.insert(0, x), list.append(x)
pop_last(bin) == SubSeq(bin, 1, Len(bin) - 1)
pop_first_pops_last(bin) == SubSeq(bin, 1, Len(bin) - 1)
pop_first(bin) == Tail(bin)
insert_first_at_end(bin, b) == Append(bin, b)
insert_first(bin, b) == <<b>> \o bin
append_at_front(bin, b) == <<b>> \o bin
append(bin, b) == Append(bin, b)

\* the variables of the functions a specification does not run
DistIdle ==
    /\ block_nnz = <<>>
    /\ n_threads = 0
    /\ total_nnz = 0
    /\ lists = <<>>
    /\ thread_bins = <<>>
    /\ thread_filled = <<>>
    /\ thread_bins_prev = <<>>
    /\ thread_filled_prev = <<>>
    /\ i_thread = 0
    /\ k_block = 1
    /\ range_next = 0
    /\ sigma0 = 0
    /\ sigma = 0
    /\ frame = [i |-> 0, j |-> 0, avg2 |-> 0, caller |-> "none"]
    /\ greedy_bins = <<>>
    /\ pass_bins = <<>>
    /\ result = <<>>

SplitIdle ==
    /\ m_coo = <<>>
    /\ block_info = <<>>
    /\ n = 0
    /\ res_AB = [status |-> "none"]
    /\ res_AB_blocks = [status |-> "none"]

ListIdle ==
    /\ seq_in = <<>>
    /\ n_chunks = 0
    /\ lst = <<>>
    /\ i_chunk = 0
    /\ splitted = <<>>

DiagIdle ==
    /\ h0_diag = <<>>
    /\ h0_offdiag = 0
    /\ n_blocks = 0
    /\ res_diag = <<>>
    /\ i_block = 0
    /\ j_block = 0

PulseIdle ==
    /\ tgrid = <<>>
    /\ amplitude = <<>>
    /\ upsample = <<>>
    /\ downsample = <<>>
    /\ num = <<>>
    /\ nt = 0
    /\ num_samples = <<>>
    /\ tgrid_at_call = <<>>
    /\ amplitude_at_call = <<>>

AttrIdle ==
    /\ attr_keys = <<>>
    /\ attr_data = <<>>
    /\ parent_units = <<>>
    /\ parent_is_complex = ""
    /\ attr_raised = "none"

\* ------------------------------------------------- distribute_keep_together
\* a literal input with one dominant block: costs [10, 10, 10, 10, 100]
ScenarioBlocks == <<10, 10, 10, 10, 100>>

BlockLists ==
    UNION {[1..len -> 0..MaxNnz] : len \in 0..MaxBlocks} \cup {ScenarioBlocks}
ThreadCounts == {-1} \cup (0..MaxThreads)

InitDist ==
    /\ pc = "entry"
    /\ block_nnz \in BlockLists
    /\ n_threads \in ThreadCounts
    /\ total_nnz = 0
    /\ lists = <<>>
    /\ thread_bins = <<>>
    /\ thread_filled = <<>>
    /\ thread_bins_prev = <<>>
    /\ thread_filled_prev = <<>>
    /\ i_thread = 0
    /\ k_block = 1
    /\ range_next = 0
    /\ sigma0 = 0
    /\ sigma = 0
    /\ frame = [i |-> 0, j |-> 0, avg2 |-> 0, caller |-> "none"]
    /\ greedy_bins = <<>>
    /\ pass_bins = <<>>
    /\ result = <<>>
    /\ SplitIdle
    /\ ListIdle
    /\ DiagIdle
    /\ PulseIdle
    /\ AttrIdle

\* lines 171-175; int / 0 raises ZeroDivisionError at line 172
Entry ==
    /\ pc = "entry"
    /\ total_nnz' = SumSeq(block_nnz)
    /\ IF n_threads = 0
       THEN /\ pc' = "ZeroDivisionError"
            /\ UNCHANGED <<lists, thread_bins, thread_filled>>
       ELSE /\ pc' = "greedy"
            /\ lists' = [t \in Threads |-> <<>>]
            /\ thread_bins' = [t \in Threads |-> t]
            /\ thread_filled' = [t \in Threads |-> 0]
    /\ i_thread' = 0
    /\ k_block' = 1
    /\ UNCHANGED <<block_nnz, n_threads, thread_bins_prev, thread_filled_prev,
                   range_next, sigma0, sigma, frame, greedy_bins, pass_bins,
                   result>>
    /\ UNCHANGED <<splitVars, listVars, diagVars, pulseVars, attrVars>>

\* line 177: (thread_filled[i_thread] + 0.5 * nnz) >= nnz_per_thread,
\* both sides times 2 * n_threads (n_threads > 0 whenever this is evaluated)
advance_thread_whole_block(filled, nnz) == 2 * n_threads * filled + 2 * n_threads * nnz >= 2 * total_nnz
advance_thread_no_lookahead(filled, nnz) == 2 * n_threads * filled >= 2 * total_nnz
advance_thread_strict(filled, nnz) == 2 * n_threads * filled + n_threads * nnz > 2 * total_nnz
advance_thread(filled, nnz) == 2 * n_threads * filled + n_threads * nnz >= 2 * total_nnz

\* lines 176-180, one block; indexing an empty array raises IndexError
GreedyStep ==
    /\ pc = "greedy"
    /\ k_block <= Len(block_nnz)
    /\ IF i_thread \notin DOMAIN thread_filled
       THEN /\ pc' = "IndexError"
            /\ UNCHANGED <<lists, thread_filled, i_thread, k_block>>
       ELSE LET nnz == block_nnz[k_block]
                it == IF advance_thread(thread_filled[i_thread], nnz)
                      THEN Min(i_thread + 1, n_threads - 1)
                      ELSE i_thread
            IN /\ i_thread' = it
               /\ lists' = [lists EXCEPT ![thread_bins[it]] = append(@, k_block)]
               /\ thread_filled' = [thread_filled EXCEPT ![it] = @ + nnz]
               /\ k_block' = k_block + 1
               /\ pc' = "greedy"
    /\ UNCHANGED <<block_nnz, n_threads, total_nnz, thread_bins,
                   thread_bins_prev, thread_filled_prev, range_next, sigma0,
                   sigma, frame, greedy_bins, pass_bins, result>>
    /\ UNCHANGED <<splitVars, listVars, diagVars, pulseVars, attrVars>>

\* lines 181-183
GreedyEnd ==
    /\ pc = "greedy"
    /\ k_block > Len(block_nnz)
    /\ sigma0' = Imbalance(thread_filled)
    /\ greedy_bins' = Deref(thread_bins)
    /\ pc' = "while"
    /\ UNCHANGED <<block_nnz, n_threads, total_nnz, lists, thread_bins,
                   thread_filled, thread_bins_prev, thread_filled_prev,
                   i_thread, k_block, range_next, sigma, frame, pass_bins,
                   result>>
    /\ UNCHANGED <<splitVars, listVars, diagVars, pulseVars, attrVars>>

\* line 185: list.copy() is a shallow copy, the new outer list holds the same
\* inner list objects
copy_bins(bins) == bins

\* line 186: ndarray.copy() copies the values
copy_filled(filled) == filled

\* lines 184-187: the snapshot, then reversed(range(1, n_threads)) is created
PassBegin ==
    /\ pc = "while"
    /\ thread_bins_prev' = copy_bins(thread_bins)
    /\ thread_filled_prev' = copy_filled(thread_filled)
    /\ pass_bins' = Deref(thread_bins)
    /\ range_next' = n_threads - 1
    /\ pc' = "down"
    /\ UNCHANGED <<block_nnz, n_threads, total_nnz, lists, thread_bins,
                   thread_filled, i_thread, k_block, sigma0, sigma, frame,
                   greedy_bins, result>>
    /\ UNCHANGED <<splitVars, listVars, diagVars, pulseVars, attrVars>>

\* lines 154-156, 162: entry of balance_threads(thread_bins, thread_filled, i, j)
balance_branch(fi, fj) ==
    IF fi > fj THEN "gt" ELSE IF fi < fj THEN "lt" ELSE "return"

BalanceCall(loop, i, j) ==
    /\ frame' = [i |-> i, j |-> j,
                 avg2 |-> thread_filled[i] + thread_filled[j],
                 caller |-> loop]
    /\ pc' = LET b == balance_branch(thread_filled[i], thread_filled[j])
             IN IF b = "return" THEN loop ELSE b

\* lines 187-188: one iteration of the descending loop
DownCall ==
    /\ pc = "down"
    /\ range_next >= 1
    /\ i_thread' = range_next
    /\ range_next' = range_next - 1
    /\ BalanceCall("down", range_next - 1, range_next)
    /\ UNCHANGED <<block_nnz, n_threads, total_nnz, lists, thread_bins,
                   thread_filled, thread_bins_prev, thread_filled_prev,
                   k_block, sigma0, sigma, greedy_bins, pass_bins, result>>
    /\ UNCHANGED <<splitVars, listVars, diagVars, pulseVars, attrVars>>

\* lines 189-192: the descending loop is over, range(1, n_threads) is created
DownEnd ==
    /\ pc = "down"
    /\ range_next < 1
    /\ sigma' = Imbalance(thread_filled)
    /\ range_next' = 1
    /\ pc' = "up"
    /\ UNCHANGED <<block_nnz, n_threads, total_nnz, lists, thread_bins,
                   thread_filled, thread_bins_prev, thread_filled_prev,
                   i_thread, k_block, sigma0, frame, greedy_bins, pass_bins,
                   result>>
    /\ UNCHANGED <<splitVars, listVars, diagVars, pulseVars, attrVars>>

\* lines 192-193: one iteration of the ascending loop
UpCall ==
    /\ pc = "up"
    /\ range_next < n_threads
    /\ i_thread' = range_next
    /\ range_next' = range_next + 1
    /\ BalanceCall("up", range_next - 1, range_next)
    /\ UNCHANGED <<block_nnz, n_threads, total_nnz, lists, thread_bins,
                   thread_filled, thread_bins_prev, thread_filled_prev,
                   k_block, sigma0, sigma, greedy_bins, pass_bins, result>>
    /\ UNCHANGED <<splitVars, listVars, diagVars, pulseVars, attrVars>>

\* lines 194-196
UpEnd ==
    /\ pc = "up"
    /\ range_next >= n_threads
    /\ sigma' = Imbalance(thread_filled)
    /\ pc' = "if"
    /\ UNCHANGED <<block_nnz, n_threads, total_nnz, lists, thread_bins,
                   thread_filled, thread_bins_prev, thread_filled_prev,
                   i_thread, k_block, range_next, sigma0, frame, greedy_bins,
                   pass_bins, result>>
    /\ UNCHANGED <<splitVars, listVars, diagVars, pulseVars, attrVars>>

\* line 157: while thread_filled[i] > avg
over_avg_or_equal(fi, avg2) == 2 * fi >= avg2
over_avg(fi, avg2) == 2 * fi > avg2

\* line 163: while thread_filled[i] < avg
under_avg(fi, avg2) == 2 * fi < avg2

\* lines 160-161 and 166-167: the loads follow the block
moved_one_sided(filled, from, to, block) ==
    [filled EXCEPT ![to] = @ + block_nnz[block]]
moved(filled, from, to, block) ==
    [filled EXCEPT ![from] = @ - block_nnz[block],
                   ![to] = @ + block_nnz[block]]

\* lines 157-161: one test of the while condition and, if it holds, one
\* transfer of the last block of bin i to the front of bin j
MoveRight ==
    /\ pc = "gt"
    /\ LET i == frame.i
           j == frame.j
           src == lists[thread_bins[i]]
       IN IF ~over_avg(thread_filled[i], frame.avg2)
          THEN /\ pc' = frame.caller
               /\ UNCHANGED <<lists, thread_filled>>
          ELSE IF src = <<>>
          THEN /\ pc' = "IndexError"
               /\ UNCHANGED <<lists, thread_filled>>
          ELSE LET block == src[Len(src)]
               IN /\ lists' = [lists EXCEPT
                                 ![thread_bins[i]] = pop_last(@),
                                 ![thread_bins[j]] = insert_first(@, block)]
                  /\ thread_filled' = moved(thread_filled, i, j, block)
                  /\ pc' = "gt"
    /\ UNCHANGED <<block_nnz, n_threads, total_nnz, thread_bins,
                   thread_bins_prev, thread_filled_prev, i_thread, k_block,
                   range_next, sigma0, sigma, frame, greedy_bins, pass_bins,
                   result>>
    /\ UNCHANGED <<splitVars, listVars, diagVars, pulseVars, attrVars>>

\* lines 163-167: one test of the while condition and, if it holds, one
\* transfer of the first block of bin j to the end of bin i
MoveLeft ==
    /\ pc = "lt"
    /\ LET i == frame.i
           j == frame.j
           src == lists[thread_bins[j]]
       IN IF ~under_avg(thread_filled[i], frame.avg2)
          THEN /\ pc' = frame.caller
               /\ UNCHANGED <<lists, thread_filled>>
          ELSE IF src = <<>>
          THEN /\ pc' = "IndexError"
               /\ UNCHANGED <<lists, thread_filled>>
          ELSE LET block == src[1]
               IN /\ lists' = [lists EXCEPT
                                 ![thread_bins[j]] = pop_first(@),
                                 ![thread_bins[i]] = append(@, block)]
                  /\ thread_filled' = moved(thread_filled, j, i, block)
                  /\ pc' = "lt"
    /\ UNCHANGED <<block_nnz, n_threads, total_nnz, thread_bins,
                   thread_bins_prev, thread_filled_prev, i_thread, k_block,
                   range_next, sigma0, sigma, frame, greedy_bins, pass_bins,
                   result>>
    /\ UNCHANGED <<splitVars, listVars, diagVars, pulseVars, attrVars>>

\* line 197: sigma >= sigma0
not_improved_strict(s, s0) == s > s0
not_improved(s, s0) == s >= s0

\* lines 197-200: the pass is rejected
Reject ==
    /\ pc = "if"
    /\ not_improved(sigma, sigma0)
    /\ thread_bins' = thread_bins_prev
    /\ thread_filled' = thread_filled_prev
    /\ pc' = "return"
    /\ UNCHANGED <<block_nnz, n_threads, total_nnz, lists, thread_bins_prev,
                   thread_filled_prev, i_thread, k_block, range_next, sigma0,
                   sigma, frame, greedy_bins, pass_bins, result>>
    /\ UNCHANGED <<splitVars, listVars, diagVars, pulseVars, attrVars>>

\* lines 201-202: the pass is accepted
Accept ==
    /\ pc = "if"
    /\ ~not_improved(sigma, sigma0)
    /\ sigma0' = sigma
    /\ pc' = "while"
    /\ UNCHANGED <<block_nnz, n_threads, total_nnz, lists, thread_bins,
                   thread_filled, thread_bins_prev, thread_filled_prev,
                   i_thread, k_block, range_next, sigma, frame, greedy_bins,
                   pass_bins, result>>
    /\ UNCHANGED <<splitVars, listVars, diagVars, pulseVars, attrVars>>

\* line 203
Return ==
    /\ pc = "return"
    /\ result' = Deref(thread_bins)
    /\ pc' = "done"
    /\ UNCHANGED <<block_nnz, n_threads, total_nnz, lists, thread_bins,
                   thread_filled, thread_bins_prev, thread_filled_prev,
                   i_thread, k_block, range_next, sigma0, sigma, frame,
                   greedy_bins, pass_bins>>
    /\ UNCHANGED <<splitVars, listVars, diagVars, pulseVars, attrVars>>

NextDist ==
    \/ Entry
    \/ GreedyStep
    \/ GreedyEnd
    \/ PassBegin
    \/ DownCall
    \/ DownEnd
    \/ UpCall
    \/ UpEnd
    \/ MoveRight
    \/ MoveLeft
    \/ Reject
    \/ Accept
    \/ Return

SpecDist == InitDist /\ [][NextDist]_vars

\* the function runs to its end once called: nothing else is scheduled
SpecDistFair == SpecDist /\ WF_vars(NextDist)

\* ------------------------------------------- claims: distribute_keep_together
InputOrder == [b \in 1..Len(block_nnz) |-> b]

RECURSIVE ConcatFrom(_, _, _)
\* bins[t] \o bins[t+1] \o ... \o bins[last]
ConcatFrom(bins, t, last) ==
    IF t > last THEN <<>> ELSE bins[t] \o ConcatFrom(bins, t + 1, last)

Concat(bins) == ConcatFrom(bins, 0, n_threads - 1)

\* cost of a list of blocks
Load(bin) == SumSeq([p \in 1..Len(bin) |-> block_nnz[bin[p]]])

\* loads of a bin assignment, and its imbalance (times n_threads^2)
Loads(bins) == [t \in DOMAIN bins |-> Load(bins[t])]

\* C1: for n_threads >= 1 the returned value has n_threads bins and their
\* concatenation in thread order is the input list in its original order, so
\* every block is in exactly one bin exactly once.
C1_OrderPreserved ==
    (pc = "done" /\ n_threads >= 1) =>
        /\ DOMAIN result = Threads
        /\ Concat(result) = InputOrder

\* a call that returned bins the rebalancing phase has changed
C1_Witness ==
    /\ pc = "done"
    /\ n_threads >= 2
    /\ Len(block_nnz) >= 3
    /\ result # greedy_bins

\* C2 (as claimed): the imbalance of the returned bins is at most the
\* imbalance of the bins at the end of the greedy phase.
C2_ReturnedNoWorseThanGreedy ==
    (pc = "done" /\ n_threads >= 1) =>
        Imbalance(Loads(result)) <= Imbalance(Loads(greedy_bins))

\* C3 (as claimed): the function returns after a rejected pass, and the
\* returned assignment is the one that stood at the start of that pass.
C3_RejectedPassUndone ==
    (pc = "done" /\ n_threads >= 1) => result = pass_bins

\* C4: for n_threads >= 1 every call returns, whatever the costs (zero-cost
\* blocks and a total cost of 0 included), and the outer loop is left at the
\* first pass whose imbalance is not strictly smaller than the one before it.
C4_Terminates ==
    /\ (n_threads >= 1) => <>(pc = "done")
    /\ [][(pc = "if" /\ sigma >= sigma0) => pc' = "return"]_vars

\* a call that returned after moving blocks although a block has cost 0
C4_Witness ==
    /\ pc = "done"
    /\ n_threads >= 2
    /\ \E b \in 1..Len(block_nnz) : block_nnz[b] = 0
    /\ result # greedy_bins

\* the greedy phase is over and greedy_bins holds what it produced
GreedyOver == pc \in {"while", "down", "up", "gt", "lt", "if", "return", "done"}

ScenarioSplit == [t \in 0..1 |-> IF t = 0 THEN <<1, 2, 3, 4>> ELSE <<5>>]

\* C13: with costs [10, 10, 10, 10, 100] and n_threads = 2 the greedy phase
\* puts the first four blocks on thread 0 and the cost-100 block alone on
\* thread 1, no pass of the rebalancing phase is accepted (none strictly
\* reduces the imbalance), and the returned assignment is that same split.
C13_ScenarioSplit ==
    (block_nnz = ScenarioBlocks /\ n_threads = 2) =>
        /\ GreedyOver => greedy_bins = ScenarioSplit
        /\ (pc = "if") => sigma >= sigma0
        /\ (pc = "done") => result = ScenarioSplit

\* the scenario call has returned
C13_Witness ==
    /\ pc = "done"
    /\ block_nnz = ScenarioBlocks
    /\ n_threads = 2
    /\ result = greedy_bins

\* C14: with n_threads = 1 balance_threads is never called, no block is
\* transferred, and the call returns one bin holding all blocks in their
\* original order.
C14_SingleThread ==
    (n_threads = 1) =>
        /\ frame.caller = "none"
        /\ pc \notin {"gt", "lt"}
        /\ (pc = "done") => result = [t \in {0} |-> InputOrder]

\* a single-thread call with several blocks has returned
C14_Witness ==
    /\ pc = "done"
    /\ n_threads = 1
    /\ Len(block_nnz) >= 3
    /\ result[0] = InputOrder

\* C15 (as claimed): when the total cost is 0 the greedy phase places every
\* block on thread 0 and leaves every other bin empty, for any n_threads >= 1.
C15_AllOnThreadZero ==
    (GreedyOver /\ total_nnz = 0 /\ n_threads >= 1) =>
        /\ greedy_bins[0] = InputOrder
        /\ \A t \in Threads \ {0} : greedy_bins[t] = <<>>

\* C15 (amended): when the total cost is 0 the greedy phase advances the
\* thread index before every block (0 + 0 >= 0), so the k-th block (counted
\* from 1) lands on thread min(k, n_threads - 1): everything is on thread 0
\* only for n_threads = 1, and for n_threads >= 2 thread 0 stays empty.
C15_AdvanceBeforeEveryBlock ==
    (GreedyOver /\ total_nnz = 0 /\ n_threads >= 1) =>
        \A t \in Threads :
            greedy_bins[t] =
                SelectSeq(InputOrder, LAMBDA k : Min(k, n_threads - 1) = t)

\* a zero-cost call on several threads whose greedy phase left thread 0 empty
C15_Witness ==
    /\ GreedyOver
    /\ total_nnz = 0
    /\ n_threads >= 2
    /\ Len(block_nnz) >= 2
    /\ greedy_bins[0] = <<>>

\* C16 (as claimed): no call with n_threads < 1 returns an assignment.
C16_NonPositiveThreadsFail ==
    (n_threads < 1) => pc # "done"

\* C21: in the greedy phase the thread index starts at 0, stays within
\* 0..n_threads - 1, and placing a block changes it by 0 or +1: it moves to
\* the next thread exactly when (load of the current thread + half the
\* block's cost) >= total_cost / n_threads and the current thread is not the
\* last one; the block is appended to the bin of the resulting index and no
\* other bin changes.
C21_GreedyIndex ==
    /\ [](pc = "greedy" => (i_thread = 0 \/ i_thread \in 1..(n_threads - 1)))
    /\ [][pc = "entry" => i_thread' = 0]_vars
    /\ [][(pc = "greedy" /\ k_block' = k_block + 1) =>
            LET meets == 2 * n_threads * thread_filled[i_thread]
                            + n_threads * block_nnz[k_block] >= 2 * total_nnz
            IN /\ i_thread' \in {i_thread, i_thread + 1}
               /\ i_thread' <= n_threads - 1
               /\ (i_thread' = i_thread + 1) <=>
                      (meets /\ i_thread < n_threads - 1)
               /\ Deref(thread_bins)' =
                      [Deref(thread_bins) EXCEPT
                          ![i_thread'] = Append(@, k_block)]
               /\ thread_filled' =
                      [thread_filled EXCEPT
                          ![i_thread'] = @ + block_nnz[k_block]]]_vars

\* the greedy phase has reached the last of several threads and the next
\* block meets the advance condition again
C21_Witness ==
    /\ pc = "greedy"
    /\ n_threads >= 3
    /\ i_thread = n_threads - 1
    /\ k_block >= 3
    /\ k_block <= Len(block_nnz)
    /\ advance_thread(thread_filled[i_thread], block_nnz[k_block])

\* C22: every step of the rebalancing phase that changes the bins moves
\* exactly one block between two adjacent threads i and i + 1: the last block
\* of bin i becomes the first of bin i + 1, or the first block of bin i + 1
\* becomes the last of bin i; no other bin changes.
C22_OneHopTransfers ==
    [][(GreedyOver /\ Deref(thread_bins)' # Deref(thread_bins)) =>
        LET old == Deref(thread_bins)
            new == Deref(thread_bins)'
        IN \E i \in 0..(n_threads - 2) :
              /\ \A t \in Threads \ {i, i + 1} : new[t] = old[t]
              /\ \/ /\ old[i] # <<>>
                    /\ new[i] = SubSeq(old[i], 1, Len(old[i]) - 1)
                    /\ new[i + 1] = <<old[i][Len(old[i])]>> \o old[i + 1]
                 \/ /\ old[i + 1] # <<>>
                    /\ new[i + 1] = Tail(old[i + 1])
                    /\ new[i] = Append(old[i], Head(old[i + 1]))]_vars

\* a pass on three threads has moved a block between threads 1 and 2
C22_Witness ==
    /\ pc \in {"gt", "lt"}
    /\ n_threads >= 3
    /\ frame.i >= 1
    /\ Deref(thread_bins) # pass_bins

\* balance_threads is running
InBalance == pc \in {"gt", "lt"}

\* C23: balance_threads moves blocks only out of the thread whose load was
\* strictly larger at entry, one block per step and only while that thread's
\* load is still strictly above the average computed at entry; it returns once
\* that load is no longer above the average; the sum of the two loads never
\* changes; with equal loads at entry nothing is moved.
C23_BalanceThreads ==
    /\ [](InBalance =>
            thread_filled[frame.i] + thread_filled[frame.j] = frame.avg2)
    /\ [][(pc \in {"down", "up"} /\ frame' # frame) =>
            LET fi == thread_filled[frame'.i]
                fj == thread_filled[frame'.j]
            IN /\ frame'.i < frame'.j
               /\ frame'.avg2 = fi + fj
               /\ (pc' = "gt") <=> (fi > fj)
               /\ (pc' = "lt") <=> (fi < fj)
               /\ (pc' = pc) <=> (fi = fj)
               /\ UNCHANGED <<lists, thread_bins, thread_filled>>]_vars
    /\ [][(pc' \in {"gt", "lt"} /\ pc # pc') =>
            (pc \in {"down", "up"} /\ frame' # frame)]_vars
    /\ [][(InBalance /\ <<lists, thread_filled>>' # <<lists, thread_filled>>) =>
            LET src == IF pc = "gt" THEN frame.i ELSE frame.j
                dst == IF pc = "gt" THEN frame.j ELSE frame.i
                old == Deref(thread_bins)
                new == Deref(thread_bins)'
            IN /\ 2 * thread_filled[src] > frame.avg2
               /\ thread_filled[src] > thread_filled[dst]
               /\ Len(new[src]) = Len(old[src]) - 1
               /\ Len(new[dst]) = Len(old[dst]) + 1
               /\ \E b \in 1..Len(block_nnz) :
                     /\ thread_filled'[src] = thread_filled[src] - block_nnz[b]
                     /\ thread_filled'[dst] = thread_filled[dst] + block_nnz[b]
               /\ pc' = pc
               /\ frame' = frame]_vars
    /\ [][(InBalance /\ pc' \in {"down", "up"}) =>
            LET src == IF pc = "gt" THEN frame.i ELSE frame.j
            IN /\ 2 * thread_filled[src] <= frame.avg2
               /\ UNCHANGED <<lists, thread_bins, thread_filled>>]_vars

\* a call of balance_threads has moved blocks until the heavier thread is
\* strictly below the average
C23_Witness ==
    /\ InBalance
    /\ 2 * thread_filled[IF pc = "gt" THEN frame.i ELSE frame.j] < frame.avg2
    /\ Len(block_nnz) >= 3

\* the call is running and has not yet taken the decision of line 197
BeforeDecision == pc \in {"greedy", "while", "down", "up", "gt", "lt", "if"}

\* C27: up to the accept/reject decision thread_filled[k] is the sum of the
\* nnz of the blocks in bin k for every thread k, and balance_threads never
\* pops from an empty bin (for n_threads >= 1, zero-cost blocks included).
C27_FilledMatchesBins ==
    (n_threads >= 1) =>
        /\ BeforeDecision =>
              \A t \in Threads : thread_filled[t] = Load(lists[thread_bins[t]])
        /\ pc # "IndexError"

\* balance_threads is about to move a zero-cost block out of a bin
C27_Witness ==
    /\ InBalance
    /\ LET src == IF pc = "gt" THEN frame.i ELSE frame.j
           bin == lists[thread_bins[src]]
       IN /\ 2 * thread_filled[src] > frame.avg2
          /\ bin # <<>>
          /\ block_nnz[IF pc = "gt" THEN bin[Len(bin)] ELSE bin[1]] = 0
    /\ Deref(thread_bins) # pass_bins

\* ------------------------------------------------------------- split_list
\* range(L)
Range(L) == [p \in 1..L |-> p - 1]

\* l[:k] and l[k:]
take_one_more(l, k) == SubSeq(l, 1, Min(k + 1, Len(l)))
take(l, k) == SubSeq(l, 1, k)
drop_off_by_one(l, k) == SubSeq(l, k + 2, Len(l))
drop(l, k) == SubSeq(l, k + 1, Len(l))

\* line 132: len(lst) // i
split_point_ceil(len, i) == (len + i - 1) \div i
split_point(len, i) == len \div i

\* the call split_list(seq_in, n_chunks) after line 130, the iterator of
\* line 131 created
InitList ==
    /\ pc = "split_list"
    /\ seq_in \in {Range(L) : L \in 0..MaxLen}
    /\ n_chunks \in 0..MaxChunks
    /\ lst = seq_in
    /\ i_chunk = n_chunks
    /\ splitted = <<>>
    /\ DistIdle
    /\ SplitIdle
    /\ DiagIdle
    /\ PulseIdle
    /\ AttrIdle

\* lines 131-134: one iteration
SplitStep ==
    /\ pc = "split_list"
    /\ i_chunk >= 1
    /\ LET sp == split_point(Len(lst), i_chunk)
       IN /\ splitted' = Append(splitted, take(lst, sp))
          /\ lst' = drop(lst, sp)
    /\ i_chunk' = i_chunk - 1
    /\ UNCHANGED <<pc, seq_in, n_chunks>>
    /\ UNCHANGED <<distData, splitVars, diagVars, pulseVars, attrVars>>

\* line 135
SplitReturn ==
    /\ pc = "split_list"
    /\ i_chunk < 1
    /\ pc' = "done"
    /\ UNCHANGED <<listVars, distData, splitVars, diagVars, pulseVars, attrVars>>

NextList ==
    \/ SplitStep
    \/ SplitReturn

SpecList == InitList /\ [][NextList]_vars

\* ---------------------------------------------- split_diagonal_hamiltonian
RECURSIVE split_list_from(_, _)
\* lines 131-134 from i on, as a value: split_list(l, cnt) is what the steps
\* of SpecList leave in splitted
split_list_from(l, i) ==
    IF i < 1 THEN <<>>
    ELSE LET sp == split_point(Len(l), i)
         IN <<take(l, sp)>> \o split_list_from(drop(l, sp), i - 1)

split_list(l, cnt) == split_list_from(l, cnt)

\* line 149: qdiags(a, 0), the operator whose diagonal is a
qdiags(a) == [c \in {<<x, x>> : x \in DOMAIN a} |-> a[c[1]]]

\* line 140: the diagonal of an operator
diag(op) == [x \in {c[1] : c \in DOMAIN op} |-> op[<<x, x>>]]

\* line 148: len(diag_data)
DiagLen == Cardinality(DOMAIN h0_diag)

\* line 146: if i == j: continue
same_block_never(i, j) == FALSE
same_block(i, j) == i = j

\* line 148: a[idx] = 0 for the indices idx of a range
zero_at(a, idx) ==
    [x \in DOMAIN a |-> IF \E p \in DOMAIN idx : idx[p] = x THEN 0 ELSE a[x]]

Diagonals ==
    UNION {[0..(len - 1) -> 0..MaxDiagVal] : len \in 1..MaxDiagLen}

InitDiag ==
    /\ pc = "split_diagonal_hamiltonian"
    /\ h0_diag \in Diagonals
    /\ h0_offdiag \in {0, 1}
    /\ n_blocks \in 0..MaxChunks
    /\ res_diag = <<>>
    /\ i_block = 0
    /\ j_block = 0
    /\ DistIdle
    /\ SplitIdle
    /\ ListIdle
    /\ PulseIdle
    /\ AttrIdle

\* lines 140-142; the assertion of line 141 fails unless H0 is diagonal
DiagEntry ==
    /\ pc = "split_diagonal_hamiltonian"
    /\ pc' = IF h0_offdiag = 0 THEN "for_i" ELSE "AssertionError"
    /\ res_diag' = <<>>
    /\ i_block' = 0
    /\ UNCHANGED <<h0_diag, h0_offdiag, n_blocks, j_block>>
    /\ UNCHANGED <<distData, splitVars, listVars, pulseVars, attrVars>>

\* lines 143-144: the next i, a copy of the diagonal is appended
DiagOuter ==
    /\ pc = "for_i"
    /\ i_block < n_blocks
    /\ res_diag' = Append(res_diag, h0_diag)
    /\ j_block' = 0
    /\ pc' = "for_j"
    /\ UNCHANGED <<h0_diag, h0_offdiag, n_blocks, i_block>>
    /\ UNCHANGED <<distData, splitVars, listVars, pulseVars, attrVars>>

\* lines 145-148: one j; res[-1] is zeroed on chunk j unless i == j
DiagInner ==
    /\ pc = "for_j"
    /\ j_block < n_blocks
    /\ res_diag' =
           IF same_block(i_block, j_block)
           THEN res_diag
           ELSE [res_diag EXCEPT ![Len(res_diag)] =
                    zero_at(@, split_list(Range(DiagLen), n_blocks)[j_block + 1])]
    /\ j_block' = j_block + 1
    /\ UNCHANGED <<pc, h0_diag, h0_offdiag, n_blocks, i_block>>
    /\ UNCHANGED <<distData, splitVars, listVars, pulseVars, attrVars>>

\* line 149: the inner loop is over, res[-1] becomes an operator
DiagInnerEnd ==
    /\ pc = "for_j"
    /\ j_block >= n_blocks
    /\ res_diag' = [res_diag EXCEPT ![Len(res_diag)] = qdiags(@)]
    /\ i_block' = i_block + 1
    /\ pc' = "for_i"
    /\ UNCHANGED <<h0_diag, h0_offdiag, n_blocks, j_block>>
    /\ UNCHANGED <<distData, splitVars, listVars, pulseVars, attrVars>>

\* line 150
DiagReturn ==
    /\ pc = "for_i"
    /\ i_block >= n_blocks
    /\ pc' = "done"
    /\ UNCHANGED diagVars
    /\ UNCHANGED <<distData, splitVars, listVars, pulseVars, attrVars>>

NextDiag ==
    \/ DiagEntry
    \/ DiagOuter
    \/ DiagInner
    \/ DiagInnerEnd
    \/ DiagReturn

SpecDiag == InitDiag /\ [][NextDiag]_vars

\* ------------------------------------ claims: split_diagonal_hamiltonian
\* the indices of chunk b (1-based) of split_list(range(L), n_blocks)
ChunkIndices(b) ==
    LET chunk == split_list(Range(DiagLen), n_blocks)[b]
    IN {chunk[p] : p \in DOMAIN chunk}

\* C12: for a diagonal H0 and n_blocks >= 1 there are n_blocks outputs, output
\* b is the diagonal of H0 on the indices of chunk b and zero elsewhere; the
\* outputs add up to H0 and no index is non-zero in two outputs.
C12_DiagonalRestriction ==
    (pc = "done" /\ n_blocks >= 1) =>
        /\ Len(res_diag) = n_blocks
        /\ \A b \in 1..Len(res_diag) :
              /\ DOMAIN res_diag[b] = {<<x, x>> : x \in DOMAIN h0_diag}
              /\ \A x \in DOMAIN h0_diag :
                    res_diag[b][<<x, x>>] =
                        IF x \in ChunkIndices(b) THEN h0_diag[x] ELSE 0
        /\ \A x \in DOMAIN h0_diag :
              /\ SumSeq([b \in 1..Len(res_diag) |-> res_diag[b][<<x, x>>]])
                    = h0_diag[x]
              /\ \A b, c \in 1..Len(res_diag) :
                    (b # c) => (res_diag[b][<<x, x>>] = 0 \/ res_diag[c][<<x, x>>] = 0)

\* a finished call with several blocks on a diagonal without zeros
C12_Witness ==
    /\ pc = "done"
    /\ n_blocks >= 2
    /\ DiagLen >= 3
    /\ \A x \in DOMAIN h0_diag : h0_diag[x] # 0

\* ------------------------------------------------------------ Pulse.resample
\* A pulse has a uniform time grid of at least two points (the dt property
\* reads tgrid[1]). Times and amplitudes are stored in half units, so that
\* 0.5 * x is exact: a stored value v stands for v / 2.
None == <<>>
Some(v) == <<v>>

\* lines 486-488, 491-497 and 541-549 (the roundings to 0 and to the nearest
\* integer replace a value by one that is equal in exact arithmetic)
dt(tg) == tg[2] - tg[1]
t0(tg) == tg[1] - dt(tg) \div 2
T(tg) == tg[Len(tg)] + dt(tg) \div 2

\* np.linspace(a, b, cnt)
linspace(a, b, cnt) == [k \in 1..cnt |-> a + ((k - 1) * (b - a)) \div (cnt - 1)]

\* lines 954-956
unshift_tgrid(tg) == linspace(t0(tg), T(tg), Len(tg) + 1)

\* lines 957-963
unshift_amplitude(a) ==
    [k \in 1..(Len(a) + 1) |->
        IF k = 1 THEN a[1]
        ELSE IF k = Len(a) + 1 THEN a[Len(a)]
        ELSE (a[k - 1] + a[k]) \div 2]

\* line 1022: sum([(x is not None) for x in [upsample, downsample, num]])
given_count(u, d, m) ==
    (IF u # None THEN 1 ELSE 0) + (IF d # None THEN 1 ELSE 0)
        + (IF m # None THEN 1 ELSE 0)

UniformGrids ==
    {[k \in 1..len |-> first + (k - 1) * step] :
        first \in {1, 3}, step \in {2, 4}, len \in 2..MaxPulseLen}

Optional(S) == {None} \cup {Some(v) : v \in S}

InitPulse ==
    /\ pc = "resample"
    /\ tgrid \in UniformGrids
    /\ amplitude \in [1..Len(tgrid) -> {2 * a : a \in 0..MaxAmpl}]
    /\ upsample \in Optional(1..MaxFactor)
    /\ downsample \in Optional(0..MaxFactor)
    /\ num \in Optional(1..MaxFactor)
    /\ nt = 0
    /\ num_samples = <<>>
    /\ tgrid_at_call = tgrid
    /\ amplitude_at_call = amplitude
    /\ DistIdle
    /\ SplitIdle
    /\ ListIdle
    /\ DiagIdle
    /\ AttrIdle

\* line 1019: self._unshift(), lines 951-966
ResampleUnshift ==
    /\ pc = "resample"
    /\ tgrid' = unshift_tgrid(tgrid)
    /\ amplitude' = unshift_amplitude(amplitude)
    /\ pc' = IF Len(tgrid') = Len(amplitude') THEN "count" ELSE "AssertionError"
    /\ UNCHANGED <<upsample, downsample, num, nt, num_samples, tgrid_at_call,
                   amplitude_at_call>>
    /\ UNCHANGED <<distData, splitVars, listVars, diagVars, attrVars>>

\* lines 1020-1038: the count check, then the number of samples; the
\* Fourier resampling of lines 1040-1051 is not part of this model
ResampleCount ==
    /\ pc = "count"
    /\ nt' = Len(tgrid)
    /\ IF given_count(upsample, downsample, num) # 1
       THEN /\ pc' = "ValueError"
            /\ UNCHANGED num_samples
       ELSE IF num # None
       THEN /\ num_samples' = <<num[1] + 1, 1>>
            /\ pc' = "signal.resample"
       ELSE IF upsample # None
       THEN /\ num_samples' = <<nt' * upsample[1], 1>>
            /\ pc' = "signal.resample"
       ELSE IF downsample[1] > 0
       THEN /\ num_samples' = <<nt', downsample[1]>>
            /\ pc' = "signal.resample"
       ELSE /\ pc' = "AssertionError"
            /\ UNCHANGED num_samples
    /\ UNCHANGED <<tgrid, amplitude, upsample, downsample, num, tgrid_at_call,
                   amplitude_at_call>>
    /\ UNCHANGED <<distData, splitVars, listVars, diagVars, attrVars>>

NextPulse ==
    \/ ResampleUnshift
    \/ ResampleCount

SpecPulse == InitPulse /\ [][NextPulse]_vars

\* C26 (as claimed): resample raises ValueError exactly when none or more
\* than one of upsample, downsample, num is given, and after that error
\* tgrid and amplitude are what they were before the call.
C26_CountCheckUpfront ==
    /\ (pc \in {"ValueError", "AssertionError", "signal.resample"}) =>
          ((pc = "ValueError") <=> (given_count(upsample, downsample, num) # 1))
    /\ (pc = "ValueError") =>
          /\ tgrid = tgrid_at_call
          /\ amplitude = amplitude_at_call

\* ------------------------------------------------------ _PulseConfigAttribs
\* Keys and values are strings; the initial id -1 is written "-1".
_synchronized_keys == {"time_unit", "ampl_unit"}
_read_only_keys == {"type", "is_complex"}
_required_keys ==
    <<"id", "type", "filename", "time_unit", "ampl_unit", "is_complex">>

\* `key in self._required_keys`
is_required(key) == \E p \in DOMAIN _required_keys : _required_keys[p] = key

\* keys that are not required, and the values written
ExtraKeys == {"label", "oct_shape"}
AttrKeys == {_required_keys[p] : p \in DOMAIN _required_keys} \cup ExtraKeys
AttrValues == {"file", "au", "True"}

\* lines 65-71: __getitem__ (raises KeyError outside these cases)
can_read(key) ==
    key = "is_complex" \/ key \in _synchronized_keys \/ key \in DOMAIN attr_data
getitem(key) ==
    IF key = "is_complex" THEN parent_is_complex
    ELSE IF key \in _synchronized_keys THEN parent_units[key]
    ELSE attr_data[key]

\* lines 61-62: the key list after a write to an ordinary key
keys_after_set_always_append(ks, data, key) == Append(ks, key)
keys_after_set(ks, data, key) ==
    IF key \notin DOMAIN data THEN Append(ks, key) ELSE ks

\* dict assignment and deletion, list.remove
dict_set(data, key, value) ==
    [k \in DOMAIN data \cup {key} |-> IF k = key THEN value ELSE data[k]]
dict_del(data, key) == [k \in DOMAIN data \ {key} |-> data[k]]
list_remove(ks, key) ==
    LET first == CHOOSE p \in DOMAIN ks :
                    ks[p] = key /\ \A q \in 1..(p - 1) : ks[q] # key
    IN SubSeq(ks, 1, first - 1) \o SubSeq(ks, first + 1, Len(ks))

\* lines 43-49: __init__, for a parent pulse with any units and type
InitAttr ==
    /\ pc = "config_attribs"
    /\ attr_keys = _required_keys
    /\ attr_data = [k \in {"id", "type", "filename"} |->
                       IF k = "id" THEN "-1" ELSE IF k = "type" THEN "file"
                       ELSE ""]
    /\ parent_units \in [_synchronized_keys -> AttrValues]
    /\ parent_is_complex \in {"True", "False"}
    /\ attr_raised = "none"
    /\ DistIdle
    /\ SplitIdle
    /\ ListIdle
    /\ DiagIdle
    /\ PulseIdle

\* lines 51-63: __setitem__(key, value)
SetItem ==
    /\ pc = "config_attribs"
    /\ \E key \in AttrKeys, value \in AttrValues :
          IF key \in _read_only_keys
          THEN /\ attr_raised' = IF value # getitem(key) THEN "ValueError"
                                 ELSE "none"
               /\ UNCHANGED <<attr_keys, attr_data, parent_units>>
          ELSE IF key \in _synchronized_keys
          THEN /\ parent_units' = IF value # getitem(key)
                                  THEN [parent_units EXCEPT ![key] = value]
                                  ELSE parent_units
               /\ attr_raised' = "none"
               /\ UNCHANGED <<attr_keys, attr_data>>
          ELSE /\ attr_keys' = keys_after_set(attr_keys, attr_data, key)
               /\ attr_data' = dict_set(attr_data, key, value)
               /\ attr_raised' = "none"
               /\ UNCHANGED parent_units
    /\ UNCHANGED <<pc, parent_is_complex>>
    /\ UNCHANGED <<distData, splitVars, listVars, diagVars, pulseVars>>

\* lines 73-78: __delitem__(key)
DelItem ==
    /\ pc = "config_attribs"
    /\ \E key \in AttrKeys :
          IF is_required(key)
          THEN /\ attr_raised' = "ValueError"
               /\ UNCHANGED <<attr_keys, attr_data>>
          ELSE IF key \notin DOMAIN attr_data
          THEN /\ attr_raised' = "KeyError"
               /\ UNCHANGED <<attr_keys, attr_data>>
          ELSE /\ attr_data' = dict_del(attr_data, key)
               /\ attr_keys' = list_remove(attr_keys, key)
               /\ attr_raised' = "none"
    /\ UNCHANGED <<pc, parent_units, parent_is_complex>>
    /\ UNCHANGED <<distData, splitVars, listVars, diagVars, pulseVars>>

NextAttr ==
    \/ SetItem
    \/ DelItem

SpecAttr == InitAttr /\ [][NextAttr]_vars

\* C30: after any sequence of __setitem__ and __delitem__ calls 'type' reads
\* 'file', the six required keys are the first six keys of the iteration in
\* their order, no key is listed twice, the number of listed keys is the
\* number of keys that can be read, and a call that raises leaves the keys,
\* the stored values and the parent's units unchanged.
C30_ConfigAttribs ==
    /\ [](pc = "config_attribs" =>
            /\ can_read("type")
            /\ getitem("type") = "file"
            /\ Len(attr_keys) >= Len(_required_keys)
            /\ SubSeq(attr_keys, 1, Len(_required_keys)) = _required_keys
            /\ \A p, q \in DOMAIN attr_keys :
                  attr_keys[p] = attr_keys[q] => p = q
            /\ Len(attr_keys) = Cardinality({k \in AttrKeys : can_read(k)})
            /\ \A p \in DOMAIN attr_keys : can_read(attr_keys[p]))
    /\ [][attr_raised' # "none" =>
            UNCHANGED <<attr_keys, attr_data, parent_units>>]_vars

\* both extra keys were written, one was deleted, deleting it again raised
C30_Witness ==
    /\ pc = "config_attribs"
    /\ Len(attr_keys) = Len(_required_keys) + 1
    /\ attr_keys[Len(attr_keys)] = "label"
    /\ attr_data["id"] # "-1"
    /\ attr_raised = "KeyError"

\* ------------------------------------------------ split_AB, split_AB_blocks
\* The input matrix m is n x n and upper triangular (line 35), and m.tocoo()
\* lists its stored entries by row (line 37) and, within a row, by column.
\* The functions copy the values without looking at them: the value stored at
\* (row, col) is row * n + col + 1, which names the entry.
UpperTriangle(dim) == {<<r, c>> \in (0..(dim - 1)) \X (0..(dim - 1)) : r <= c}

Before(a, b) == a[1] < b[1] \/ (a[1] = b[1] /\ a[2] < b[2])

RECURSIVE tocoo(_, _)
tocoo(S, dim) ==
    IF S = {} THEN <<>>
    ELSE LET a == CHOOSE x \in S : \A y \in S \ {x} : Before(x, y)
         IN <<[row |-> a[1], col |-> a[2], data |-> a[1] * dim + a[2] + 1]>>
            \o tocoo(S \ {a}, dim)

\* lines 57-63: coo_matrix((data, (row, col)), shape=(n, n)).tocsr(), the
\* values of entries with the same coordinates added up
tocsr(d) ==
    [c \in {<<d[k].row, d[k].col>> : k \in DOMAIN d} |->
        SumSeq(SelectSeq([k \in DOMAIN d |->
                            IF <<d[k].row, d[k].col>> = c THEN d[k].data ELSE 0],
                         LAMBDA x : x # 0))]

\* line 40 and line 94: [n for n in block_info if n != 0]
nonzero_sizes(bi) == SelectSeq(bi, LAMBDA x : x # 0)

\* line 41 and line 95
selector_AB == 1
selector_AB_blocks == 0

\* lines 53, 105, 118
toggle(selector) == (selector + 1) % 2

\* lines 51 and 103: if i > n_row_limit
past_limit_off_by_one(i, n_row_limit) == i > n_row_limit + 1
past_limit(i, n_row_limit) == i > n_row_limit

\* lines 47 and 99: for k in range(nnz), k counted from 1 here
scan_done_early(k, nnz) == k >= nnz
scan_done(k, nnz) == k > nnz

\* lines 54-56, and lines 112 and 124: append to the bucket of the selector
put(AB, selector, x) == [AB EXCEPT ![selector] = Append(@, x)]

StopIteration == [status |-> "StopIteration"]

\* lines 42 and 96: n_row_limit = next(block_info) - 1
first_limit_no_minus_one(size) == size
first_limit(size) == size - 1

RECURSIVE scan_AB(_, _, _, _, _)
\* lines 47-56 from entry k on; sizes is what the iterator has yet to yield
scan_AB(k, n_row_limit, sizes, selector, AB) ==
    IF scan_done(k, Len(m_coo))
    THEN [status |-> "ok", A |-> tocsr(AB[0]), B |-> tocsr(AB[1]),
          n_row_limit |-> n_row_limit, unread |-> Len(sizes)]
    ELSE LET e == m_coo[k]
         IN IF past_limit(e.row, n_row_limit)
            THEN IF sizes = <<>>
                 THEN StopIteration
                 ELSE LET sel == toggle(selector)
                      IN scan_AB(k + 1, n_row_limit + Head(sizes), Tail(sizes),
                                 sel, put(AB, sel, e))
            ELSE scan_AB(k + 1, n_row_limit, sizes, selector,
                         put(AB, selector, e))

\* lines 39-66
split_AB ==
    LET sizes == nonzero_sizes(block_info)
    IN IF sizes = <<>>
       THEN StopIteration
       ELSE scan_AB(1, first_limit(Head(sizes)), Tail(sizes), selector_AB,
                    [s \in {0, 1} |-> <<>>])

\* lines 117-124: the pending block goes to the bucket of the toggled selector
final_flush_missing(AB, selector, block) == AB
final_flush_no_toggle(AB, selector, block) ==
    IF Len(block) > 0 THEN put(AB, selector, block) ELSE AB
final_flush(AB, selector, block) ==
    IF Len(block) > 0 THEN put(AB, toggle(selector), block) ELSE AB

RECURSIVE scan_AB_blocks(_, _, _, _, _, _)
\* lines 99-125 from entry k on; block is block_data, block_row, block_col
scan_AB_blocks(k, n_row_limit, sizes, selector, AB, block) ==
    IF scan_done(k, Len(m_coo))
    THEN LET last == final_flush(AB, selector, block)
         IN [status |-> "ok", A |-> last[0], B |-> last[1],
             n_row_limit |-> n_row_limit, unread |-> Len(sizes)]
    ELSE LET e == m_coo[k]
         IN IF past_limit(e.row, n_row_limit)
            THEN IF sizes = <<>>
                 THEN StopIteration
                 ELSE LET sel == toggle(selector)
                      IN IF Len(block) > 0
                         THEN scan_AB_blocks(k + 1, n_row_limit + Head(sizes),
                                             Tail(sizes), sel,
                                             put(AB, sel, block), <<e>>)
                         ELSE scan_AB_blocks(k + 1, n_row_limit + Head(sizes),
                                             Tail(sizes), sel, AB,
                                             Append(block, e))
            ELSE scan_AB_blocks(k + 1, n_row_limit, sizes, selector, AB,
                                Append(block, e))

\* lines 93-125
split_AB_blocks ==
    LET sizes == nonzero_sizes(block_info)
    IN IF sizes = <<>>
       THEN StopIteration
       ELSE scan_AB_blocks(1, first_limit(Head(sizes)), Tail(sizes),
                           selector_AB_blocks,
                           [s \in {0, 1} |-> <<>>], <<>>)

Matrices(dim) ==
    {S \in SUBSET UpperTriangle(dim) : Cardinality(S) <= MaxEntries}

BlockInfos(dim) == UNION {[1..len -> 0..dim] : len \in 0..MaxInfoLen}

InitSplit ==
    /\ pc = "split_AB"
    /\ n \in 1..MaxDim
    /\ m_coo \in {tocoo(S, n) : S \in Matrices(n)}
    /\ block_info \in BlockInfos(n)
    /\ res_AB = [status |-> "none"]
    /\ res_AB_blocks = [status |-> "none"]
    /\ DistIdle
    /\ ListIdle
    /\ DiagIdle
    /\ PulseIdle
    /\ AttrIdle

\* the call split_AB(m, block_info, n)
CallSplitAB ==
    /\ pc = "split_AB"
    /\ res_AB' = split_AB
    /\ pc' = "split_AB_blocks"
    /\ UNCHANGED <<m_coo, block_info, n, res_AB_blocks>>
    /\ UNCHANGED <<distData, listVars, diagVars, pulseVars, attrVars>>

\* the call split_AB_blocks(m, block_info, n) on the same input
CallSplitABBlocks ==
    /\ pc = "split_AB_blocks"
    /\ res_AB_blocks' = split_AB_blocks
    /\ pc' = "done"
    /\ UNCHANGED <<m_coo, block_info, n, res_AB>>
    /\ UNCHANGED <<distData, listVars, diagVars, pulseVars, attrVars>>

NextSplit ==
    \/ CallSplitAB
    \/ CallSplitABBlocks

SpecSplit == InitSplit /\ [][NextSplit]_vars

\* ------------------------------------- claims: split_AB, split_AB_blocks
\* the non-zero block sizes sum to n (and there is at least one)
ValidBlockInfo ==
    /\ nonzero_sizes(block_info) # <<>>
    /\ SumSeq(nonzero_sizes(block_info)) = n

\* offset_k: the first row of declared block k (0-based)
Offset(k) == SumSeq(SubSeq(nonzero_sizes(block_info), 1, k))

\* the declared block whose row range holds the row
BlockOf(row) ==
    CHOOSE k \in 0..(Len(nonzero_sizes(block_info)) - 1) :
        /\ Offset(k) <= row
        /\ row < Offset(k + 1)

MatAdd(X, Y) ==
    [c \in DOMAIN X \cup DOMAIN Y |->
        (IF c \in DOMAIN X THEN X[c] ELSE 0) + (IF c \in DOMAIN Y THEN Y[c] ELSE 0)]

SplitABReturned == pc \in {"split_AB_blocks", "done"}

\* C5: for a valid input split_AB returns, every stored entry of m is stored
\* with its value in exactly one of A and B, A and B store nothing else and
\* share no coordinate, and A + B = m.
C5_Partition ==
    (SplitABReturned /\ ValidBlockInfo) =>
        /\ res_AB.status = "ok"
        /\ DOMAIN res_AB.A \cap DOMAIN res_AB.B = {}
        /\ DOMAIN res_AB.A \cup DOMAIN res_AB.B = DOMAIN tocsr(m_coo)
        /\ \A k \in DOMAIN m_coo :
              LET c == <<m_coo[k].row, m_coo[k].col>>
              IN (c \in DOMAIN res_AB.A /\ res_AB.A[c] = m_coo[k].data)
                 \/ (c \in DOMAIN res_AB.B /\ res_AB.B[c] = m_coo[k].data)
        /\ MatAdd(res_AB.A, res_AB.B) = tocsr(m_coo)

\* a valid split whose two matrices both hold entries
C5_Witness ==
    /\ SplitABReturned
    /\ ValidBlockInfo
    /\ res_AB.status = "ok"
    /\ DOMAIN res_AB.A # {}
    /\ DOMAIN res_AB.B # {}

\* C6 (as claimed): for a valid input no row of m has entries in both A and B.
C6_RowInOneMatrix ==
    (SplitABReturned /\ ValidBlockInfo /\ res_AB.status = "ok") =>
        \A a \in DOMAIN res_AB.A : \A b \in DOMAIN res_AB.B : a[1] # b[1]

\* C7 (as claimed): for a valid input the entries of declared block k are in
\* the second matrix when k is even and in the first when k is odd.
C7_BlockParity ==
    (SplitABReturned /\ ValidBlockInfo /\ res_AB.status = "ok") =>
        /\ \A b \in DOMAIN res_AB.B : BlockOf(b[1]) % 2 = 0
        /\ \A a \in DOMAIN res_AB.A : BlockOf(a[1]) % 2 = 1

\* the rows of the entries of the extracted blocks of a list
RowsOf(blocks) ==
    UNION {{blocks[x][y].row : y \in DOMAIN blocks[x]} : x \in DOMAIN blocks}

\* C8 (as claimed): for a valid input there is a parity p such that the
\* entries of declared block k are in list_A when k % 2 = p and in list_B
\* otherwise.
C8_FixedParity ==
    (pc = "done" /\ ValidBlockInfo /\ res_AB_blocks.status = "ok") =>
        \E p \in {0, 1} :
            /\ \A r \in RowsOf(res_AB_blocks.A) : BlockOf(r) % 2 = p
            /\ \A r \in RowsOf(res_AB_blocks.B) : BlockOf(r) % 2 = 1 - p

\* ---------------------------------------------------- claims: split_list
RECURSIVE Flatten(_)
Flatten(ss) == IF ss = <<>> THEN <<>> ELSE Head(ss) \o Flatten(Tail(ss))

ChunkSizes == [c \in 1..Len(splitted) |-> Len(splitted[c])]

\* C9: for n >= 1 the result has exactly n chunks, each a contiguous slice of
\* the input, and the chunks concatenated in order are the input.
C9_ChunksCoverInput ==
    (pc = "done" /\ n_chunks >= 1) =>
        /\ Len(splitted) = n_chunks
        /\ Flatten(splitted) = seq_in
        /\ \A c \in 1..Len(splitted) :
              \E a \in 1..(Len(seq_in) + 1) :
                  splitted[c] = SubSeq(seq_in, a, a + Len(splitted[c]) - 1)

\* a finished call with more chunks than elements
C9_Witness ==
    /\ pc = "done"
    /\ Len(seq_in) >= 1
    /\ n_chunks > Len(seq_in)

\* C10 (as claimed): the chunk sizes are non-increasing from first to last,
\* and split_list(range(10), 3) has chunk sizes [4, 3, 3].
C10_FrontLoaded ==
    (pc = "done" /\ n_chunks >= 1) =>
        /\ \A c \in 1..(Len(splitted) - 1) : ChunkSizes[c] >= ChunkSizes[c + 1]
        /\ (seq_in = Range(10) /\ n_chunks = 3) => ChunkSizes = <<4, 3, 3>>

\* C10 (amended): the remainder is back-loaded: the chunk sizes are
\* non-decreasing from first to last, and split_list(range(10), 3) has chunk
\* sizes [3, 3, 4].
C10_BackLoaded ==
    (pc = "done" /\ n_chunks >= 1) =>
        /\ \A c \in 1..(Len(splitted) - 1) : ChunkSizes[c] <= ChunkSizes[c + 1]
        /\ (seq_in = Range(10) /\ n_chunks = 3) => ChunkSizes = <<3, 3, 4>>

\* the finished call split_list(range(10), 3)
C10_Witness ==
    /\ pc = "done"
    /\ seq_in = Range(10)
    /\ n_chunks = 3

\* C11: for 1 <= n <= L every chunk has floor(L/n) or ceil(L/n) elements, so
\* two chunk sizes differ by at most 1.
C11_SizesWithinOne ==
    (pc = "done" /\ 1 <= n_chunks /\ n_chunks <= Len(seq_in)) =>
        /\ \A c \in 1..Len(splitted) :
              \/ ChunkSizes[c] = Len(seq_in) \div n_chunks
              \/ ChunkSizes[c] = (Len(seq_in) + n_chunks - 1) \div n_chunks
        /\ \A c, e \in 1..Len(splitted) : ChunkSizes[c] - ChunkSizes[e] <= 1

\* a finished call whose chunks cannot all have the same size
C11_Witness ==
    /\ pc = "done"
    /\ 2 <= n_chunks
    /\ n_chunks <= Len(seq_in)
    /\ Len(seq_in) % n_chunks # 0

\* --------------------------- claims: split_AB, split_AB_blocks (continued)
\* C17 (as claimed): when the non-zero block sizes do not sum to n, neither
\* split_AB nor split_AB_blocks returns a result.
C17_SumMismatchFails ==
    (pc = "done" /\ SumSeq(nonzero_sizes(block_info)) # n) =>
        /\ res_AB.status # "ok"
        /\ res_AB_blocks.status # "ok"

\* C18 (as claimed): split_AB with a block-size array holding only zeros
\* returns a pair of (empty) matrices.
C18_AllZeroReturns ==
    (SplitABReturned /\ block_info # <<>> /\ nonzero_sizes(block_info) = <<>>) =>
        res_AB.status = "ok"

\* the entries of all extracted blocks, list_A first
AllExtracted ==
    Flatten(res_AB_blocks.A) \o Flatten(res_AB_blocks.B)

\* C19: for a valid input split_AB_blocks returns, every stored entry of m is
\* in exactly one extracted block with its row, column and value, the blocks
\* hold nothing else, and the sum of all extracted blocks is m.
C19_BlocksKeepEveryEntry ==
    (pc = "done" /\ ValidBlockInfo) =>
        /\ res_AB_blocks.status = "ok"
        /\ \A k \in DOMAIN m_coo :
              Cardinality({p \in DOMAIN AllExtracted :
                              AllExtracted[p] = m_coo[k]}) = 1
        /\ Len(AllExtracted) = Len(m_coo)
        /\ tocsr(AllExtracted) = tocsr(m_coo)

\* a valid split with a block handed over during the scan and one after it
C19_Witness ==
    /\ pc = "done"
    /\ ValidBlockInfo
    /\ res_AB_blocks.status = "ok"
    /\ Len(m_coo) >= 2
    /\ Len(res_AB_blocks.A) + Len(res_AB_blocks.B) >= 2

\* C20: for a valid input all rows of one extracted block lie in the row
\* range of one declared block.
C20_NoBlockSpansTwo ==
    (pc = "done" /\ ValidBlockInfo /\ res_AB_blocks.status = "ok") =>
        \A blocks \in {res_AB_blocks.A, res_AB_blocks.B} :
            \A x \in DOMAIN blocks :
                \A y, z \in DOMAIN blocks[x] :
                    BlockOf(blocks[x][y].row) = BlockOf(blocks[x][z].row)

\* a valid split with several declared blocks that extracted a block of two
\* entries in different rows
C20_Witness ==
    /\ pc = "done"
    /\ ValidBlockInfo
    /\ res_AB_blocks.status = "ok"
    /\ Len(nonzero_sizes(block_info)) >= 2
    /\ \E blocks \in {res_AB_blocks.A, res_AB_blocks.B} :
          \E x \in DOMAIN blocks :
              \E y, z \in DOMAIN blocks[x] : blocks[x][y].row # blocks[x][z].row

\* C24: for a valid input neither scan asks for a block size the iterator no
\* longer has: both calls return, the row limit never passes n - 1, and once
\* every block size has been read the row limit is n - 1.
C24_IteratorNotOverrun ==
    /\ (SplitABReturned /\ ValidBlockInfo) =>
          /\ res_AB.status = "ok"
          /\ res_AB.n_row_limit <= n - 1
          /\ (res_AB.unread = 0) => res_AB.n_row_limit = n - 1
    /\ (pc = "done" /\ ValidBlockInfo) =>
          /\ res_AB_blocks.status = "ok"
          /\ res_AB_blocks.n_row_limit <= n - 1
          /\ (res_AB_blocks.unread = 0) => res_AB_blocks.n_row_limit = n - 1

\* a valid split that read the last of several block sizes and then scanned
\* another entry
C24_Witness ==
    /\ pc = "done"
    /\ ValidBlockInfo
    /\ Len(nonzero_sizes(block_info)) >= 2
    /\ res_AB.status = "ok"
    /\ res_AB.unread = 0
    /\ res_AB_blocks.status = "ok"
    /\ res_AB_blocks.unread = 0
    /\ Len(m_coo) >= 2
    /\ m_coo[Len(m_coo) - 1].row >= Offset(Len(nonzero_sizes(block_info)) - 1)

\* the extracted blocks of both lists, named by list and position
Extracted ==
    {<<"A", x>> : x \in DOMAIN res_AB_blocks.A}
        \cup {<<"B", x>> : x \in DOMAIN res_AB_blocks.B}

\* the value of the first entry of an extracted block: values grow with the
\* row, so this orders the blocks by row
KeyOf(b) ==
    IF b[1] = "A" THEN res_AB_blocks.A[b[2]][1].data
    ELSE res_AB_blocks.B[b[2]][1].data

RECURSIVE InRowOrder(_)
\* the lists of the extracted blocks S, the blocks taken in row order
InRowOrder(S) ==
    IF S = {} THEN <<>>
    ELSE LET b == CHOOSE x \in S : \A y \in S : KeyOf(x) <= KeyOf(y)
         IN <<b[1]>> \o InRowOrder(S \ {b})

\* for a valid input consecutive extracted blocks are in different lists
BlocksAlternate ==
    (pc = "done" /\ ValidBlockInfo /\ res_AB_blocks.status = "ok") =>
        LET tags == InRowOrder(Extracted)
        IN \A p \in 1..(Len(tags) - 1) : tags[p] # tags[p + 1]

\* for a valid input the first extracted block is in the second returned list
\* (the selector starts at 0 and is toggled to 1 before the block is stored)
FirstBlockInB ==
    (pc = "done" /\ ValidBlockInfo /\ res_AB_blocks.status = "ok") =>
        LET tags == InRowOrder(Extracted)
        IN tags # <<>> => tags[1] = "B"

\* for a valid input the first extracted block is in the first returned list
FirstBlockInA ==
    (pc = "done" /\ ValidBlockInfo /\ res_AB_blocks.status = "ok") =>
        LET tags == InRowOrder(Extracted)
        IN tags # <<>> => tags[1] = "A"

\* C25 (as claimed): for a valid input the extracted blocks, in row order,
\* alternate between the two lists, the first extracted block is always in
\* the same list (the second one, where the code puts a first block that
\* starts in the first declared block), and the list lengths differ by at
\* most 1.
C25_AlternateFromFixedList ==
    /\ BlocksAlternate
    /\ FirstBlockInB
    /\ (pc = "done" /\ ValidBlockInfo /\ res_AB_blocks.status = "ok") =>
          Abs(Len(res_AB_blocks.A) - Len(res_AB_blocks.B)) <= 1

\* C28: on every input on which both functions complete, the blocks of the
\* first list of split_AB_blocks add up to the first matrix of split_AB and
\* the blocks of the second list to the second matrix.
C28_SameBuckets ==
    (pc = "done" /\ res_AB.status = "ok" /\ res_AB_blocks.status = "ok") =>
        /\ tocsr(Flatten(res_AB_blocks.A)) = res_AB.A
        /\ tocsr(Flatten(res_AB_blocks.B)) = res_AB.B

\* both functions completed and both buckets hold entries
C28_Witness ==
    /\ pc = "done"
    /\ res_AB.status = "ok"
    /\ res_AB_blocks.status = "ok"
    /\ res_AB_blocks.A # <<>>
    /\ res_AB_blocks.B # <<>>
    /\ DOMAIN res_AB.A # {}
    /\ DOMAIN res_AB.B # {}

\* the number of declared blocks that hold a stored entry
DeclaredWithEntries ==
    Cardinality({BlockOf(m_coo[k].row) : k \in DOMAIN m_coo})

\* C29 (as claimed): for a valid input all entries of one declared block are
\* in one extracted block, so there are as many extracted blocks as declared
\* blocks that hold a stored entry.
C29_OneBlockPerDeclared ==
    (pc = "done" /\ ValidBlockInfo /\ res_AB_blocks.status = "ok") =>
        /\ \A k1, k2 \in DOMAIN m_coo :
              BlockOf(m_coo[k1].row) = BlockOf(m_coo[k2].row) =>
                  \E b \in Extracted :
                      LET block == IF b[1] = "A" THEN res_AB_blocks.A[b[2]]
                                   ELSE res_AB_blocks.B[b[2]]
                      IN /\ \E y \in DOMAIN block : block[y] = m_coo[k1]
                         /\ \E y \in DOMAIN block : block[y] = m_coo[k2]
        /\ Cardinality(Extracted) = DeclaredWithEntries

====
